---- MODULE Spec2Model ----
(***************************************************************************)
(* Walk-forward backtesting engine of stock-sentinel:                      *)
(*   src/src/backtester.py          Backtester (load_data, run, buy, sell, *)
(*                                  finalize_report)                       *)
(*   src/src/strategies/engineer.py EngineerStrategy.analyze               *)
(*   src/src/ai_analyst.py          AIAnalyst.get_analysis                 *)
(*                                                                         *)
(* Numbers.  The program computes in binary floating point.  Here every    *)
(* price, indicator and amount of money is an integer count of 1/SCALE     *)
(* units (fixed point, divisions round down), the RSI is a count of        *)
(* 1/RSI_SCALE points, and percentages are counts of 1/SCALE percent.      *)
(* Dates are day numbers; the weekly bar number k is dated 7*k.            *)
(***************************************************************************)
EXTENDS Integers, Sequences, FiniteSets, TLC

\* ------------------------------------------------------------------ bounds
\* Longest part of a primary series after the 20 warm-up bars.
MaxTail == 2
\* Largest number of run() calls on one engine (specification SpecRerun).
MaxRuns == 2
MaxCalls == 3

\* --------------------------------------------------------- number formats
SCALE == 10 * 100
RSI_SCALE == 10 * 10

\* ------------------------------------------------------ program constants
min_window == 20
ema_len == 20
rsi_len == 14
atr_len == 14
initial_capital == 10000
\* start_date=None / end_date=None: the falsy value of `if self.start_date`
NoneDate == 0

\* ---------------------------------------------------------------- helpers
Max2(a, b) == IF a >= b THEN a ELSE b
Max3(a, b, c) == Max2(a, Max2(b, c))
Abs(a) == IF a >= 0 THEN a ELSE 0 - a
Last(s) == s[Len(s)]

\* A loader result: None, or a frame holding bars in ascending date order.
NoneDF == [isNone |-> TRUE, bars |-> <<>>]
Frame(bs) == [isNone |-> FALSE, bars |-> bs]

\* ------------------------------------------------------------- indicators
\* pandas Series.ewm(alpha=num/den, adjust=False).mean() at (1-based)
\* position n: y[1] = x[1], y[t] = (1-alpha)*y[t-1] + alpha*x[t].
RECURSIVE EwmAt(_, _, _, _)
EwmAt(xs, num, den, n) ==
    IF n = 1 THEN xs[1]
    ELSE ((den - num) * EwmAt(xs, num, den, n - 1) + num * xs[n]) \div den

\* df['close'].ewm(span=ema_len, adjust=False).mean(): alpha = 2/(span+1)
EMA(df, n) == EwmAt([k \in 1..Len(df) |-> df[k].close], 2, ema_len + 1, n)

\* delta = close.diff(); the first delta is NaN and both where() calls
\* turn it into 0.
Delta(df, k) == IF k = 1 THEN 0 ELSE df[k].close - df[k - 1].close
Gain(df) == [k \in 1..Len(df) |-> IF Delta(df, k) > 0 THEN Delta(df, k) ELSE 0]
Loss(df) == [k \in 1..Len(df) |-> IF Delta(df, k) < 0 THEN 0 - Delta(df, k) ELSE 0]
AvgGain(df, n) == EwmAt(Gain(df), 1, rsi_len, n)
AvgLoss(df, n) == EwmAt(Loss(df), 1, rsi_len, n)

\* rs = avg_gain / avg_loss; RSI = 100 - 100/(1 + rs).  Float division by
\* zero gives inf (RSI 100) for a positive avg_gain and NaN for 0/0.
NaN == [nan |-> TRUE, v |-> 0]
Num(x) == [nan |-> FALSE, v |-> x]
RSI(df, n) ==
    LET ag == AvgGain(df, n)
        al == AvgLoss(df, n)
    IN  IF al = 0
        THEN IF ag = 0 THEN NaN ELSE Num(100 * RSI_SCALE)
        ELSE Num(100 * RSI_SCALE - (100 * RSI_SCALE * al) \div (al + ag))

\* True range: row-wise max of high-low, |high - prev close| and
\* |low - prev close|; in the first row the two shifted terms are NaN and
\* max(axis=1) skips them.
TrueRange(df) ==
    [k \in 1..Len(df) |->
        IF k = 1 THEN df[k].high - df[k].low
        ELSE Max3(df[k].high - df[k].low,
                  Abs(df[k].high - df[k - 1].close),
                  Abs(df[k].low - df[k - 1].close))]
ATR(df, n) == EwmAt(TrueRange(df), 1, atr_len, n)

\* Comparisons with a float that may be NaN: every comparison with NaN is
\* False.
LeNum(x, c) == ~x.nan /\ x.v <= c
GtNum(x, c) == ~x.nan /\ x.v > c

\* ---------------------------------------------------------- signal logic
\* SignalLogic with the overbought test moved in front of the hard stop.
SignalLogic_profit_first(price, ema, rsi, atr, prev_close, prev_ema) ==
    LET hard_stop == ema - atr
        sig == IF GtNum(rsi, 75 * RSI_SCALE) THEN <<"PROFIT", "warning">>
               ELSE IF price < hard_stop THEN <<"SELL", "danger">>
               ELSE IF price < ema THEN <<"HOLD", "warning">>
               ELSE IF price > ema
                       /\ (LeNum(rsi, 55 * RSI_SCALE) \/ prev_close < prev_ema)
                    THEN <<"BUY", "success">>
               ELSE <<"HOLD", "info">>
    IN  [kind |-> "Signal", price |-> price, ema |-> ema, rsi |-> rsi,
         stop_loss |-> hard_stop, signal |-> sig[1], severity |-> sig[2]]

\* SignalLogic with the pullback test RSI < 55 instead of RSI <= 55.
SignalLogic_rsi_strict(price, ema, rsi, atr, prev_close, prev_ema) ==
    LET hard_stop == ema - atr
        sig == IF price < hard_stop THEN <<"SELL", "danger">>
               ELSE IF price < ema THEN <<"HOLD", "warning">>
               ELSE IF price > ema
                       /\ (LeNum(rsi, 55 * RSI_SCALE - 1) \/ prev_close < prev_ema)
                    THEN <<"BUY", "success">>
               ELSE IF GtNum(rsi, 75 * RSI_SCALE) THEN <<"PROFIT", "warning">>
               ELSE <<"HOLD", "info">>
    IN  [kind |-> "Signal", price |-> price, ema |-> ema, rsi |-> rsi,
         stop_loss |-> hard_stop, signal |-> sig[1], severity |-> sig[2]]

\* Part 4 of analyze ("Signal Logic") on the extracted values and the
\* returned dict (the reason text is left out).
SignalLogic(price, ema, rsi, atr, prev_close, prev_ema) ==
    LET hard_stop == ema - atr
        sig == IF price < hard_stop THEN <<"SELL", "danger">>
               ELSE IF price < ema THEN <<"HOLD", "warning">>
               ELSE IF price > ema
                       /\ (LeNum(rsi, 55 * RSI_SCALE) \/ prev_close < prev_ema)
                    THEN <<"BUY", "success">>
               ELSE IF GtNum(rsi, 75 * RSI_SCALE) THEN <<"PROFIT", "warning">>
               ELSE <<"HOLD", "info">>
    IN  [kind |-> "Signal", price |-> price, ema |-> ema, rsi |-> rsi,
         stop_loss |-> hard_stop, signal |-> sig[1], severity |-> sig[2]]

\* df.iloc[k] for a negative k: position Len+k+1 when it exists; otherwise
\* pandas raises IndexError.
IlocInBounds(df, k) == Len(df) + k >= 0
IlocNeg(df, k) == Len(df) + k + 1

IndexError == [kind |-> "IndexError"]

\* analyze with a guard that answers a default HOLD on a short frame.
analyze_silent_hold(df) ==
    IF Len(df) < 2
    THEN [kind |-> "Signal", price |-> 0, ema |-> 0, rsi |-> NaN,
          stop_loss |-> 0, signal |-> "HOLD", severity |-> "info"]
    ELSE LET c == IlocNeg(df, -1)
             p == IlocNeg(df, -2)
         IN  SignalLogic(df[c].close, EMA(df, c), RSI(df, c), ATR(df, c),
                         df[p].close, EMA(df, p))

\* EngineerStrategy.analyze(df): indicators over the whole frame it is
\* given, then curr = df.iloc[-1], prev = df.iloc[-2], then the cascade.
analyze(df) ==
    IF ~IlocInBounds(df, -1) \/ ~IlocInBounds(df, -2) THEN IndexError
    ELSE LET c == IlocNeg(df, -1)
             p == IlocNeg(df, -2)
         IN  SignalLogic(df[c].close, EMA(df, c), RSI(df, c), ATR(df, c),
                         df[p].close, EMA(df, p))

\* ------------------------------------------------------------ the engine
VARIABLES
    start_date, end_date, capital, use_ai, slippage_pct, api_key,
    cash, shares, total_cost, trades, equity_curve,
    full_df, benchmark_dfs,
    pc, i, analysis, ai_outcome, verdict, report, exc, runs, fetched,
    arg, ret

cfgVars == <<start_date, end_date, capital, use_ai, slippage_pct, api_key>>
acctVars == <<cash, shares, total_cost, trades>>
dataVars == <<full_df, benchmark_dfs>>
stepVars == <<analysis, ai_outcome, verdict>>
probeVars == <<arg, ret>>
vars == <<cfgVars, acctVars, equity_curve, dataVars, pc, i, stepVars,
          report, exc, runs, fetched, probeVars>>

\* ------------------------------------------------- what the loader returns
Prices == {70, 90, 130}
Bar(k, c) == [date |-> 7 * k, close |-> c * SCALE,
              high |-> (c + 10) * SCALE, low |-> (c - 10) * SCALE]
MkBars(closes) == [k \in 1..Len(closes) |-> Bar(k, closes[k])]
Warmup == [k \in 1..min_window |-> IF k < min_window THEN 100 ELSE 98]
Tails == UNION {[1..n -> Prices] : n \in 0..MaxTail}
LongSeries == {MkBars(Warmup \o t) : t \in Tails}
ShortSeries == {MkBars(<<>>), MkBars(<<100>>), MkBars(<<100, 90, 130>>)}
PrimaryResults == {NoneDF} \cup {Frame(bs) : bs \in LongSeries \cup ShortSeries}

benchmark_tickers == {"SPY", "QQQ"}
BenchBars == MkBars(Warmup \o <<90, 130>>)
BenchResults == {NoneDF, Frame(BenchBars)}

StartDates == {NoneDate, 7 * (min_window + 1) + 3}
EndDates == {NoneDate, 3, 7 * (min_window + 2) - 1}
Slippages == {0, 1, SCALE}

\* ------------------------------------------------------------ the advisory
\* What happens to the request of AIAnalyst.get_analysis.
AdvisoryOutcomes == {"no_key", "http_error", "exception", "not_json",
                     "json_agree", "json_caution", "json_disagree",
                     "json_other"}
AdvisoryFailures == {"no_key", "http_error", "exception", "not_json",
                     "json_other"}
PossibleOutcomes == IF api_key THEN AdvisoryOutcomes \ {"no_key"}
                    ELSE {"no_key"}

\* Text is a sequence of words; `pat in text` is a contiguous match.
Contains(text, pat) ==
    \E k \in 1..(Len(text) - Len(pat) + 1) :
        SubSeq(text, k, k + Len(pat) - 1) = pat

\* The string get_analysis returns.  CHECK, CROSS and WARN stand for the
\* three emoji the code prefixes to the verdict.
get_analysis(outcome) ==
    IF outcome = "no_key"
    THEN <<"AI", "Analysis", "skipped", "(No", "API", "Key", "provided).">>
    ELSE IF outcome = "http_error"
    THEN <<"AI", "Analysis", "failed", "(API", "Error).">>
    ELSE IF outcome = "exception"
    THEN <<"AI", "Analysis", "failed:", "timeout">>
    ELSE IF outcome = "not_json"
    THEN <<"I", "cannot", "answer", "in", "JSON">>
    ELSE LET v == IF outcome = "json_agree" THEN <<"Agree">>
                  ELSE IF outcome = "json_disagree" THEN <<"Disagree">>
                  ELSE IF outcome = "json_caution" THEN <<"Caution">>
                  ELSE <<"N/A">>
             v2 == IF Contains(v, <<"Agree">>) THEN <<"CHECK">> \o v
                   ELSE IF Contains(v, <<"Disagree">>) THEN <<"CROSS">> \o v
                   ELSE IF Contains(v, <<"Caution">>) THEN <<"WARN">> \o v
                   ELSE v
         IN  <<"**Verdict:**">> \o v2
                 \o <<"**Confidence:**", "High", "**Sizing:**", "Standard",
                      "**Analysis:**", "text">>

\* "Simple parsing of AI verdict" in run.
ParseVerdict(ai_response) ==
    IF Contains(ai_response, <<"CHECK", "Agree">>) THEN "Agree"
    ELSE IF Contains(ai_response, <<"WARN", "Caution">>) THEN "Caution"
    ELSE "Disagree"

\* ------------------------------------------------------------- load_data
\* df[df.index <= end_date]
Truncate(bs) ==
    IF end_date # NoneDate THEN SelectSeq(bs, LAMBDA b : b.date <= end_date)
    ELSE bs

\* load_data that also fails when a benchmark cannot be loaded.
LoadOutcome_bench_fatal(primary, bench) ==
    LET got == {t \in benchmark_tickers : ~bench[t].isNone}
        cached == [t \in (DOMAIN benchmark_dfs) \cup got |->
                      IF t \in got THEN bench[t].bars ELSE benchmark_dfs[t]]
    IN  IF primary.isNone \/ primary.bars = <<>> \/ got # benchmark_tickers
        THEN [full_df |-> primary, benchmark_dfs |-> cached,
              exc |-> "ValueError"]
        ELSE [full_df |-> Frame(Truncate(primary.bars)),
              benchmark_dfs |-> [t \in DOMAIN cached |-> Truncate(cached[t])],
              exc |-> "none"]

\* The effect of load_data when the loader answers `primary` for the ticker
\* and bench[t] for benchmark t.
LoadOutcome(primary, bench) ==
    LET got == {t \in benchmark_tickers : ~bench[t].isNone}
        cached == [t \in (DOMAIN benchmark_dfs) \cup got |->
                      IF t \in got THEN bench[t].bars ELSE benchmark_dfs[t]]
    IN  IF primary.isNone \/ primary.bars = <<>>
        THEN [full_df |-> primary, benchmark_dfs |-> cached,
              exc |-> "ValueError"]
        ELSE [full_df |-> Frame(Truncate(primary.bars)),
              benchmark_dfs |-> [t \in DOMAIN cached |-> Truncate(cached[t])],
              exc |-> "none"]

\* A call of load_data; `after` is where the caller goes on when it returns.
LoadCall(after) ==
    \E primary \in PrimaryResults, bench \in [benchmark_tickers -> BenchResults] :
        LET o == LoadOutcome(primary, bench)
        IN  /\ full_df' = o.full_df
            /\ benchmark_dfs' = o.benchmark_dfs
            /\ exc' = o.exc
            /\ pc' = IF o.exc = "none" THEN after ELSE "raised"
            /\ fetched' = [kind |-> "fetched", primary |-> primary,
                           bench |-> bench]

\* load_data() called on the new engine, before run.
LoadData ==
    /\ pc = "new"
    /\ full_df.isNone
    /\ LoadCall("new")
    /\ UNCHANGED <<cfgVars, acctVars, equity_curve, i, stepVars, report,
                   runs, probeVars>>

\* ------------------------------------------------------------------- run
\* run() up to the first iteration of its loop.
RunCall ==
    /\ runs' = runs + 1
    /\ IF full_df.isNone
       THEN LoadCall("loop")
       ELSE /\ pc' = "loop"
            /\ UNCHANGED <<dataVars, exc, fetched>>
    /\ i' = min_window
    /\ UNCHANGED <<cfgVars, acctVars, equity_curve, stepVars, report,
                   probeVars>>

Run == pc = "new" /\ RunCall

\* cash, total_cost, cost, revenue and profit are Python floats: each
\* arithmetic result is rounded to the nearest representable value, ties to
\* the even one.  The double keeps 53 binary digits; the model keeps the
\* values in 1/SCALE units and as many decimal digits as FLOAT_LIMIT has
\* zeros, so that the closes and slippages of the runs above are exact and a
\* price with a third decimal on an account above 10000 is rounded.
FLOAT_LIMIT == 10 * SCALE * SCALE

RECURSIVE Ulp(_, _)
Ulp(a, g) == IF a < FLOAT_LIMIT * g THEN g ELSE Ulp(a, 10 * g)

fl(x) ==
    LET a == Abs(x)
        g == Ulp(a, 1)
        q == a \div g
        r == a % g
        m == IF 2 * r > g \/ (2 * r = g /\ q % 2 = 1) THEN (q + 1) * g
             ELSE q * g
    IN  IF x < 0 THEN 0 - m ELSE m

\* buy that replaces the position instead of adding to it.
buy_replaces_position(date, price, quantity) ==
    LET exec_price == (price * (SCALE + slippage_pct)) \div SCALE
        cost == fl(quantity * exec_price)
    IN  /\ cash' = fl(cash - cost)
        /\ shares' = quantity
        /\ total_cost' = cost
        /\ trades' = Append(trades, [type |-> "BUY", date |-> date,
                                     price |-> exec_price, qty |-> quantity])

\* buy filled at the quoted price, slippage left out.
buy_at_quote(date, price, quantity) ==
    LET cost == fl(quantity * price)
    IN  /\ cash' = fl(cash - cost)
        /\ shares' = shares + quantity
        /\ total_cost' = fl(total_cost + cost)
        /\ trades' = Append(trades, [type |-> "BUY", date |-> date,
                                     price |-> price, qty |-> quantity])

\* buy(date, price, quantity, reason)
buy(date, price, quantity) ==
    LET exec_price == (price * (SCALE + slippage_pct)) \div SCALE
        cost == fl(quantity * exec_price)
    IN  /\ cash' = fl(cash - cost)
        /\ shares' = shares + quantity
        /\ total_cost' = fl(total_cost + cost)
        /\ trades' = Append(trades, [type |-> "BUY", date |-> date,
                                     price |-> exec_price, qty |-> quantity])

\* sell that reports the profit against the quoted price.
sell_pnl_at_quote(date, price) ==
    IF shares > 0
    THEN LET exec_price == (price * (SCALE - slippage_pct)) \div SCALE
             revenue == fl(shares * exec_price)
         IN  /\ cash' = fl(cash + revenue)
             /\ trades' = Append(trades, [type |-> "SELL", date |-> date,
                                          price |-> exec_price, qty |-> 0,
                                          pnl |-> fl(fl(shares * price)
                                                     - total_cost)])
             /\ shares' = 0
             /\ total_cost' = 0
    ELSE UNCHANGED acctVars

\* sell that leaves the cost basis of the closed position in place.
sell_keep_cost(date, price) ==
    IF shares > 0
    THEN LET exec_price == (price * (SCALE - slippage_pct)) \div SCALE
             revenue == fl(shares * exec_price)
             profit == fl(revenue - total_cost)
         IN  /\ cash' = fl(cash + revenue)
             /\ trades' = Append(trades, [type |-> "SELL", date |-> date,
                                          price |-> exec_price, qty |-> 0,
                                          pnl |-> profit])
             /\ shares' = 0
             /\ total_cost' = total_cost
    ELSE UNCHANGED acctVars

\* sell(date, price, reason)
sell(date, price) ==
    IF shares > 0
    THEN LET exec_price == (price * (SCALE - slippage_pct)) \div SCALE
             revenue == fl(shares * exec_price)
             profit == fl(revenue - total_cost)
         IN  /\ cash' = fl(cash + revenue)
             /\ trades' = Append(trades, [type |-> "SELL", date |-> date,
                                          price |-> exec_price, qty |-> 0,
                                          pnl |-> profit])
             /\ shares' = 0
             /\ total_cost' = 0
    ELSE UNCHANGED acctVars

\* A sizing that puts all the cash into the order.
Quantity_whole_cash(cash_, price, mult10) == cash_ \div price

\* int(target_amount // price) with target = cash * 0.2 * confidence_mult,
\* capped at cash; mult10 is ten times the confidence multiplier.
Quantity(cash_, price, mult10) ==
    LET target_amount == (cash_ * 2 * mult10) \div 100
        capped == IF target_amount > cash_ THEN cash_ ELSE target_amount
    IN  capped \div price

\* A BUY that the advisory cannot veto.
ExecutesBuy_ignores_veto(v, quantity) == quantity > 0

\* "Execute Buy if AI agrees or warns", and only for at least one share.
ExecutesBuy(v, quantity) == v # "Disagree" /\ quantity > 0

\* A SELL that goes through on Agree only.
ExecutesSell_agree_only(v) == v = "Agree"

\* A SELL that the advisory cannot veto.
ExecutesSell_ignores_veto(v) == TRUE

\* A SELL that is held on Caution and goes through on Disagree.
ExecutesSell_holds_on_caution(v) == v # "Caution"

\* "Execute Sell UNLESS AI strongly disagrees".
ExecutesSell(v) == v # "Disagree"

\* The warm-up skip left out: every bar from min_window on is simulated.
BeforeStart_never(current_date) == FALSE

\* The warm-up skip with the comparison turned round.
BeforeStart_reversed(current_date) ==
    start_date # NoneDate /\ current_date > start_date

\* "Skip if before start_date": the string comparison of the ISO dates.
BeforeStart(current_date) ==
    start_date # NoneDate /\ current_date < start_date

\* A loop that stops one index early.
RangeExhausted_one_early(idx, n) == idx + 1 >= n

\* for i in range(min_window, len(self.full_df)): the loop is over once the
\* index has reached the length.
RangeExhausted(idx, n) == idx >= n

\* strategy.analyze is a function of the frame alone: its value on every
\* frame that run can slice from a loaded series (a series of LongSeries cut
\* after one of its bars is again in LongSeries), computed once.
strategy_analyze == [bs \in LongSeries |-> analyze(bs)]

\* A slice that reaches one bar beyond the current one.
current_analysis_lookahead(bars, idx) ==
    strategy_analyze[SubSeq(bars, 1,
                            IF idx + 2 <= Len(bars) THEN idx + 2 ELSE idx + 1)]

\* current_slice = full_df.iloc[:i+1].copy(), then strategy.analyze on it.
current_analysis(bars, idx) == strategy_analyze[SubSeq(bars, 1, idx + 1)]

\* One iteration of the loop of run, on the bar at (0-based) index i.  The
\* news fetch before the advisory call (loader.get_news_for_period) only
\* feeds the prompt; it is taken to return without effect on the engine.
Step ==
    /\ pc = "loop"
    /\ ~RangeExhausted(i, Len(full_df.bars))
    /\ i' = i + 1
    /\ LET current_date == full_df.bars[i + 1].date
       IN  IF BeforeStart(current_date)
           THEN UNCHANGED <<acctVars, equity_curve, pc, stepVars, exc>>
           ELSE LET a == current_analysis(full_df.bars, i) IN
                IF a.kind # "Signal"
                THEN /\ pc' = "raised"
                     /\ exc' = a.kind
                     /\ UNCHANGED <<acctVars, equity_curve, stepVars>>
                ELSE
                /\ analysis' = a
                /\ equity_curve' = Append(equity_curve,
                       [date |-> current_date,
                        equity |-> cash + shares * a.price])
                /\ UNCHANGED <<pc, exc>>
                /\ IF a.signal = "BUY" /\ cash > a.price
                   THEN \E outcome \in (IF use_ai THEN PossibleOutcomes ELSE {"none"}) :
                          LET v == IF use_ai
                                   THEN ParseVerdict(get_analysis(outcome))
                                   ELSE "Agree"
                              mult10 == IF v = "Agree" THEN 15
                                        ELSE IF v = "Caution" THEN 5 ELSE 10
                              quantity == Quantity(cash, a.price, mult10)
                          IN  /\ ai_outcome' = outcome
                              /\ verdict' = v
                              /\ IF ExecutesBuy(v, quantity)
                                 THEN buy(current_date, a.price, quantity)
                                 ELSE UNCHANGED acctVars
                   ELSE IF a.signal \in {"SELL", "PROFIT"} /\ shares > 0
                   THEN \E outcome \in (IF use_ai THEN PossibleOutcomes ELSE {"none"}) :
                          LET v == IF use_ai
                                   THEN ParseVerdict(get_analysis(outcome))
                                   ELSE "Agree"
                          IN  /\ ai_outcome' = outcome
                              /\ verdict' = v
                              /\ IF ExecutesSell(v)
                                 THEN sell(current_date, a.price)
                                 ELSE UNCHANGED acctVars
                   ELSE /\ ai_outcome' = "none"
                        /\ verdict' = "none"
                        /\ UNCHANGED acctVars
    /\ UNCHANGED <<cfgVars, dataVars, report, runs, fetched, probeVars>>

\* ((x - base) / base) * 100, in 1/SCALE percent; base is a whole number of
\* units.
Pct(x, base) == ((x - base) * 100) \div (base \div SCALE)

\* finalize_report, called when the loop of run is exhausted.
Finalize ==
    /\ pc = "loop"
    /\ RangeExhausted(i, Len(full_df.bars))
    /\ IF ~IlocInBounds(full_df.bars, -1)
       THEN /\ pc' = "raised"
            /\ exc' = "IndexError"
            /\ UNCHANGED report
       ELSE LET final_price == full_df.bars[IlocNeg(full_df.bars, -1)].close
                total_equity == cash + shares * final_price
                pnl_pct == Pct(total_equity, capital)
                sim_df(t) == IF start_date # NoneDate
                             THEN SelectSeq(benchmark_dfs[t],
                                            LAMBDA b : b.date >= start_date)
                             ELSE benchmark_dfs[t]
                shown == {t \in DOMAIN benchmark_dfs :
                             benchmark_dfs[t] # <<>> /\ sim_df(t) # <<>>}
            IN  /\ report' =
                     [total_equity |-> total_equity,
                      pnl_pct |-> pnl_pct,
                      benchmarks |->
                          [t \in shown |->
                              LET bench_return ==
                                      Pct(Last(sim_df(t)).close,
                                          sim_df(t)[1].close)
                              IN  [bench_return |-> bench_return,
                                   alpha |-> pnl_pct - bench_return]],
                      total_trades |-> Len(trades)]
                /\ pc' = "done"
                /\ UNCHANGED exc
    /\ UNCHANGED <<cfgVars, acctVars, equity_curve, dataVars, i, stepVars,
                   runs, fetched, probeVars>>

NoReport == [total_equity |-> 0, pnl_pct |-> 0, benchmarks |-> <<>>,
             total_trades |-> 0]
NoAnalysis == [kind |-> "none"]
NoProbe == [kind |-> "none"]

\* The state after Backtester.__init__.
Constructed ==
    /\ capital = initial_capital * SCALE
    /\ cash = capital
    /\ shares = 0
    /\ total_cost = 0
    /\ trades = <<>>
    /\ equity_curve = <<>>
    /\ full_df = NoneDF
    /\ benchmark_dfs = <<>>
    /\ pc = "new"
    /\ i = 0
    /\ analysis = NoAnalysis
    /\ ai_outcome = "none"
    /\ verdict = "none"
    /\ report = NoReport
    /\ exc = "none"
    /\ runs = 0
    /\ fetched = [kind |-> "none"]

Init ==
    /\ start_date \in StartDates
    /\ end_date \in EndDates
    /\ use_ai \in BOOLEAN
    /\ api_key \in (IF use_ai THEN BOOLEAN ELSE {FALSE})
    /\ slippage_pct \in Slippages
    /\ Constructed
    /\ arg = NoProbe
    /\ ret = NoProbe

Next == LoadData \/ Run \/ Step \/ Finalize

Spec == Init /\ [][Next]_vars

\* run is sequential code: once it is in its loop, the next iteration, and
\* after the last one finalize_report, is eventually executed.
SpecLive == Init /\ [][Next]_vars /\ WF_vars(Step) /\ WF_vars(Finalize)

\* ------------------------------------------- one engine, several run calls
\* A further run() on an engine whose previous run has returned.
Rerun == pc = "done" /\ runs < MaxRuns /\ RunCall

InitRerun ==
    /\ start_date \in StartDates
    /\ end_date = NoneDate
    /\ use_ai = FALSE
    /\ api_key = FALSE
    /\ slippage_pct \in Slippages
    /\ Constructed
    /\ arg = NoProbe
    /\ ret = NoProbe

NextRerun == LoadData \/ Run \/ Step \/ Finalize \/ Rerun

SpecRerun == InitRerun /\ [][NextRerun]_vars

\* ------------------------------------------------- analyze, called directly
\* Frames whose close, high and low are one price at every bar.
FlatFrames ==
    {[k \in 1..n |-> [date |-> 7 * k, close |-> c * SCALE,
                      high |-> c * SCALE, low |-> c * SCALE]] :
        c \in Prices, n \in {2, 3, ema_len + 1}}
ProbeFrames ==
    {MkBars(cs) : cs \in UNION {[1..n -> Prices] : n \in 0..3}}
        \cup FlatFrames
ProbeRsi == {NaN} \cup {Num(r * RSI_SCALE) : r \in {50, 55, 56, 75, 76}}
ProbeValues ==
    [price : {80 * SCALE, 95 * SCALE, 100 * SCALE, 105 * SCALE},
     ema : {100 * SCALE},
     rsi : ProbeRsi,
     atr : {0, 10 * SCALE},
     prev_close : {90 * SCALE, 100 * SCALE, 110 * SCALE},
     prev_ema : {100 * SCALE}]

\* strategy.analyze(df) on a frame of any length.
AnalyzeFrame ==
    /\ arg.kind = "frame"
    /\ ret = NoProbe
    /\ ret' = analyze(arg.df)
    /\ UNCHANGED <<cfgVars, acctVars, equity_curve, dataVars, pc, i,
                   stepVars, report, exc, runs, fetched, arg>>

\* The signal logic of analyze on given indicator values of the last two
\* bars.
AnalyzeValues ==
    /\ arg.kind = "values"
    /\ ret = NoProbe
    /\ ret' = SignalLogic(arg.v.price, arg.v.ema, arg.v.rsi, arg.v.atr,
                          arg.v.prev_close, arg.v.prev_ema)
    /\ UNCHANGED <<cfgVars, acctVars, equity_curve, dataVars, pc, i,
                   stepVars, report, exc, runs, fetched, arg>>

InitAnalyze ==
    /\ start_date = NoneDate
    /\ end_date = NoneDate
    /\ use_ai = FALSE
    /\ api_key = FALSE
    /\ slippage_pct = 1
    /\ Constructed
    /\ arg \in {[kind |-> "frame", df |-> f] : f \in ProbeFrames}
              \cup {[kind |-> "values", v |-> v] : v \in ProbeValues}
    /\ ret = NoProbe

NextAnalyze == AnalyzeFrame \/ AnalyzeValues

SpecAnalyze == InitAnalyze /\ [][NextAnalyze]_vars

\* ------------------------------------------- buy and sell called directly
\* buy and sell called on an engine, outside run.  arg keeps the log of the
\* calls made, each with the account as it stood before the call.
Account == [cash |-> cash, shares |-> shares, total_cost |-> total_cost,
            trades |-> trades, equity_curve |-> equity_curve]

\* Whole prices, and two with a third decimal: 70.005 and 130.001.
CallPrices == {70 * SCALE, 70 * SCALE + 5, 90 * SCALE, 100 * SCALE,
               130 * SCALE, 130 * SCALE + 1}
CallQuantities == {1, 10}

\* bt.buy(date, price, qty, reason)
BuyCall ==
    /\ arg.kind = "calls"
    /\ Len(arg.log) < MaxCalls
    /\ \E price \in CallPrices, qty \in CallQuantities :
          /\ buy(7 * (Len(arg.log) + 1), price, qty)
          /\ arg' = [arg EXCEPT !.log = Append(@,
                         [op |-> "buy", price |-> price, qty |-> qty,
                          pre |-> Account])]
    /\ UNCHANGED <<cfgVars, equity_curve, dataVars, pc, i, stepVars, report,
                   exc, runs, fetched, ret>>

\* bt.sell(date, price, reason)
SellCall ==
    /\ arg.kind = "calls"
    /\ Len(arg.log) < MaxCalls
    /\ \E price \in CallPrices :
          /\ sell(7 * (Len(arg.log) + 1), price)
          /\ arg' = [arg EXCEPT !.log = Append(@,
                         [op |-> "sell", price |-> price, qty |-> 0,
                          pre |-> Account])]
    /\ UNCHANGED <<cfgVars, equity_curve, dataVars, pc, i, stepVars, report,
                   exc, runs, fetched, ret>>

\* A new engine, or one that holds 10 shares bought for 900 in all.
InitAccount ==
    /\ start_date = NoneDate
    /\ end_date = NoneDate
    /\ use_ai = FALSE
    /\ api_key = FALSE
    /\ slippage_pct \in Slippages
    /\ capital = initial_capital * SCALE
    /\ \E held \in {0, 10} :
          /\ shares = held
          /\ total_cost = held * 90 * SCALE
          /\ cash = capital - total_cost
    /\ trades = <<>>
    /\ equity_curve = <<>>
    /\ full_df = NoneDF
    /\ benchmark_dfs = <<>>
    /\ pc = "new"
    /\ i = 0
    /\ analysis = NoAnalysis
    /\ ai_outcome = "none"
    /\ verdict = "none"
    /\ report = NoReport
    /\ exc = "none"
    /\ runs = 0
    /\ fetched = [kind |-> "none"]
    /\ arg = [kind |-> "calls", log |-> <<>>]
    /\ ret = NoProbe

NextAccount == BuyCall \/ SellCall

SpecAccount == InitAccount /\ [][NextAccount]_vars

\* --------------------------------------------------------- position sizer
\* PositionSizer.calculate_size.  account_size is in whole units,
\* base_risk_pct in 1/10000 (0.01 is 100), the regime modifier in 1/100,
\* price and stop_loss in 1/SCALE units.
risk_modifier(macro_regime) ==
    IF macro_regime = "RISK_ON" THEN 100
    ELSE IF macro_regime = "NEUTRAL" THEN 50
    ELSE IF macro_regime = "RISK_OFF" THEN 25
    ELSE 50

ZeroDivisionError == [kind |-> "ZeroDivisionError"]

\* calculate_size with the unknown regime sized like RISK_ON.
calculate_size_unknown_full(account_size, base_risk_pct, price, stop_loss, macro_regime) ==
    LET modifier == IF macro_regime \in {"NEUTRAL"} THEN 50
                    ELSE IF macro_regime = "RISK_OFF" THEN 25 ELSE 100
        risk_amount == account_size * base_risk_pct * modifier
        rps_n == IF price - stop_loss <= 0 THEN price ELSE price - stop_loss
        rps_d == IF price - stop_loss <= 0 THEN 20 ELSE 1
    IN  IF rps_n = 0 \/ price = 0 THEN ZeroDivisionError
        ELSE LET shares_ == (risk_amount * rps_d) \div (SCALE * rps_n)
                 max_shares_allocation == (account_size * 250) \div price
                 final_shares == IF shares_ <= max_shares_allocation
                                 THEN shares_ ELSE max_shares_allocation
             IN  [kind |-> "Sizing", shares |-> final_shares,
                  position_value |-> final_shares * price,
                  risk_amount |-> (final_shares * rps_n) \div rps_d,
                  regime_modifier |-> modifier]

\* calculate_size without the 25% allocation cap.
calculate_size_no_cap(account_size, base_risk_pct, price, stop_loss, macro_regime) ==
    LET modifier == risk_modifier(macro_regime)
        risk_amount == account_size * base_risk_pct * modifier
        rps_n == IF price - stop_loss <= 0 THEN price ELSE price - stop_loss
        rps_d == IF price - stop_loss <= 0 THEN 20 ELSE 1
    IN  IF rps_n = 0 \/ price = 0 THEN ZeroDivisionError
        ELSE LET final_shares == (risk_amount * rps_d) \div (SCALE * rps_n)
             IN  [kind |-> "Sizing", shares |-> final_shares,
                  position_value |-> final_shares * price,
                  risk_amount |-> (final_shares * rps_n) \div rps_d,
                  regime_modifier |-> modifier]

\* risk_amount = account_size * base_risk_pct * modifier (here in 1/10^6
\* units); risk_per_share = price - stop_loss, or price * 0.05 = price/20
\* when that is <= 0, held as the fraction rps_n/rps_d; shares and
\* max_shares_allocation are float quotients (a zero divisor raises
\* ZeroDivisionError), final_shares = floor(min(...)).
calculate_size(account_size, base_risk_pct, price, stop_loss, macro_regime) ==
    LET modifier == risk_modifier(macro_regime)
        risk_amount == account_size * base_risk_pct * modifier
        rps_n == IF price - stop_loss <= 0 THEN price ELSE price - stop_loss
        rps_d == IF price - stop_loss <= 0 THEN 20 ELSE 1
    IN  IF rps_n = 0 \/ price = 0 THEN ZeroDivisionError
        ELSE LET shares_ == (risk_amount * rps_d) \div (SCALE * rps_n)
                 max_shares_allocation == (account_size * 250) \div price
                 final_shares == IF shares_ <= max_shares_allocation
                                 THEN shares_ ELSE max_shares_allocation
             IN  [kind |-> "Sizing", shares |-> final_shares,
                  position_value |-> final_shares * price,
                  risk_amount |-> (final_shares * rps_n) \div rps_d,
                  regime_modifier |-> modifier]

SizerInputs ==
    [kind : {"size"},
     account_size : {1000, 10000},
     base_risk_pct : {50, 100},
     price : {0, 50 * SCALE, 100 * SCALE, 130 * SCALE},
     stop_loss : {0 - 10 * SCALE, 0, 50 * SCALE, 100 * SCALE - 100,
                  100 * SCALE, 150 * SCALE},
     macro_regime : {"RISK_ON", "NEUTRAL", "RISK_OFF", "UNKNOWN"}]

\* sizer.calculate_size(price, stop_loss, macro_regime)
CalculateSize ==
    /\ arg.kind = "size"
    /\ ret = NoProbe
    /\ ret' = calculate_size(arg.account_size, arg.base_risk_pct, arg.price,
                             arg.stop_loss, arg.macro_regime)
    /\ UNCHANGED <<cfgVars, acctVars, equity_curve, dataVars, pc, i,
                   stepVars, report, exc, runs, fetched, arg>>

InitSizer ==
    /\ start_date = NoneDate
    /\ end_date = NoneDate
    /\ use_ai = FALSE
    /\ api_key = FALSE
    /\ slippage_pct = 1
    /\ Constructed
    /\ arg \in SizerInputs
    /\ ret = NoProbe

NextSizer == CalculateSize

SpecSizer == InitSizer /\ [][NextSizer]_vars

\* ================================================================ claims
StrictlyIncreasingDates(curve) ==
    \A k \in 1..(Len(curve) - 1) : curve[k].date < curve[k + 1].date
DatesOf(s) == [k \in 1..Len(s) |-> s[k].date]
\* The bars the loop of the current run has gone past (0-based indices
\* min_window .. i-1).
BarsPassed ==
    [k \in 1..(i - min_window) |-> full_df.bars[min_window + k]]
AgreeUpTo(a, b, idx) ==
    /\ Len(a) > idx
    /\ Len(b) > idx
    /\ SubSeq(a, 1, idx + 1) = SubSeq(b, 1, idx + 1)

\* C1: no lookahead.  Whenever a step of run computes an analysis at index
\* i, every other primary series that has the same bars 0..i gets the very
\* same analysis (signal, price, ema, rsi, stop_loss) at index i, whatever
\* its bars after i are.
C1_NoLookahead ==
    [][(pc = "loop" /\ i' = i + 1 /\ equity_curve' # equity_curve)
          => \A alt \in LongSeries :
                AgreeUpTo(alt, full_df.bars, i)
                   => current_analysis(alt, i) = analysis']_vars

\* A step has analysed bar i-1 of a series that goes on, and another series
\* has the same bars up to there and a different next bar.
C1_Witness ==
    /\ pc = "loop"
    /\ analysis.kind = "Signal"
    /\ i < Len(full_df.bars)
    /\ equity_curve # <<>>
    /\ Last(equity_curve).date = full_df.bars[i].date
    /\ \E alt \in LongSeries :
          /\ AgreeUpTo(alt, full_df.bars, i - 1)
          /\ Len(alt) > i
          /\ alt[i + 1] # full_df.bars[i + 1]

\* C2: when the advisory call of a step fails (no API key, non-200 answer,
\* exception, or content in which no verdict is recognised) the verdict is
\* Agree: the run goes on, a BUY step has bought and a SELL/PROFIT step has
\* liquidated the position.
C2_FailureMeansAgree ==
    ai_outcome \in AdvisoryFailures
       => /\ verdict = "Agree"
          /\ pc # "raised"
          /\ analysis.signal \in {"SELL", "PROFIT"} => shares = 0
          /\ analysis.signal = "BUY"
                => /\ trades # <<>>
                   /\ Last(trades).type = "BUY"
                   /\ Last(trades).date = Last(equity_curve).date

\* C3: load_data followed by run either raises the data-unavailable error
\* or completes through finalize_report; no other exception propagates.
C3_OnlyDataUnavailable ==
    pc = "raised" => exc = "ValueError"

\* C4: load_data raises the data-unavailable error exactly when the loader
\* has no primary series or an empty one; a benchmark that could not be
\* loaded is in neither the benchmark cache nor the report, and never makes
\* load_data or run fail.
C4_LoadFailure ==
    /\ exc = "ValueError"
          <=> /\ fetched.kind = "fetched"
              /\ (fetched.primary.isNone \/ fetched.primary.bars = <<>>)
    /\ fetched.kind = "fetched"
          => /\ \A t \in benchmark_tickers :
                   fetched.bench[t].isNone
                      => /\ t \notin DOMAIN benchmark_dfs
                         /\ t \notin DOMAIN report.benchmarks
             /\ pc = "raised"
                   => \/ fetched.primary.isNone
                      \/ \A k \in 1..Len(fetched.primary.bars) :
                            /\ end_date # NoneDate
                            /\ fetched.primary.bars[k].date > end_date

\* A finished run whose report shows one benchmark while the other could
\* not be loaded.
C4_Witness ==
    /\ pc = "done"
    /\ fetched.bench["SPY"].isNone
    /\ ~fetched.bench["QQQ"].isNone
    /\ DOMAIN report.benchmarks = {"QQQ"}

\* C5 as stated: the equity curve has one point for every bar from index
\* min_window on that the loop has gone past, also for bars dated before
\* start_date.
C5_EquityForEveryBar ==
    pc \in {"loop", "done"} => DatesOf(equity_curve) = DatesOf(BarsPassed)

\* C5 amended: the equity curve has one point for every bar from index
\* min_window on that is dated on or after start_date (every such bar when
\* start_date is not set); a bar dated before start_date gets no point.
C5_EquityFromStart ==
    pc \in {"loop", "done"}
       => DatesOf(equity_curve)
            = DatesOf(SelectSeq(BarsPassed,
                  LAMBDA b : start_date = NoneDate \/ b.date >= start_date))

\* A finished run with a start date that has passed over a bar without an
\* equity point and recorded one for a later bar.
C5_Witness ==
    /\ pc = "done"
    /\ start_date # NoneDate
    /\ equity_curve # <<>>
    /\ Len(equity_curve) < Len(BarsPassed)

\* C6: with a start date, every ledger record is dated on or after it, and
\* until the loop reaches the first bar on or after it cash, shares,
\* total_cost and the ledger are as constructed.
C6_NoTradeBeforeStart ==
    start_date # NoneDate
       => /\ \A k \in 1..Len(trades) : trades[k].date >= start_date
          /\ (pc = "loop" /\ \A k \in 1..Len(BarsPassed) :
                                 BarsPassed[k].date < start_date)
                => /\ cash = capital
                   /\ shares = 0
                   /\ total_cost = 0
                   /\ trades = <<>>

\* A run with a start date that has skipped a bar and then traded.
C6_Witness ==
    /\ start_date # NoneDate
    /\ pc \in {"loop", "done"}
    /\ trades # <<>>
    /\ BarsPassed[1].date < start_date

\* C7: over any sequence of load_data and run calls on one engine the
\* equity curve only grows by appending, each appended point is
\* cash + shares * close of its bar with cash and shares as they are before
\* the trade of that step, and the dates of the curve are strictly
\* increasing.
C7_EquityCurve ==
    [][/\ \/ equity_curve' = equity_curve
          \/ /\ Len(equity_curve') = Len(equity_curve) + 1
             /\ SubSeq(equity_curve', 1, Len(equity_curve)) = equity_curve
             /\ Last(equity_curve').date = full_df.bars[i + 1].date
             /\ Last(equity_curve').equity
                   = cash + shares * full_df.bars[i + 1].close
       /\ StrictlyIncreasingDates(equity_curve')]_vars

\* The inputs of the signal logic in a direct call of analyze.
ProbeIn ==
    IF arg.kind = "values" THEN arg.v
    ELSE LET n == Len(arg.df)
         IN  [price |-> arg.df[n].close, ema |-> EMA(arg.df, n),
              rsi |-> RSI(arg.df, n), atr |-> ATR(arg.df, n),
              prev_close |-> arg.df[n - 1].close,
              prev_ema |-> EMA(arg.df, n - 1)]

\* C8: signal priority.  Whenever price < EMA - ATR, analyze returns SELL
\* with severity danger, whatever the RSI and the previous bar are; PROFIT
\* is never returned for such a bar.
C8_HardStopFirst ==
    (ret.kind = "Signal" /\ ProbeIn.price < ProbeIn.ema - ProbeIn.atr)
       => ret.signal = "SELL" /\ ret.severity = "danger"

\* A bar below the stop level whose RSI is above 75 has been classified.
C8_Witness ==
    /\ ret.kind = "Signal"
    /\ arg.kind = "values"
    /\ ~arg.v.rsi.nan
    /\ arg.v.rsi.v > 75 * RSI_SCALE
    /\ arg.v.price < arg.v.ema - arg.v.atr
    /\ ret.signal = "SELL"

\* The five rules of the cascade as an ordered list of (predicate, outcome).
RuleHolds(k, in) ==
    CASE k = 1 -> in.price < in.ema - in.atr
      [] k = 2 -> in.price < in.ema
      [] k = 3 -> /\ in.price > in.ema
                  /\ \/ (~in.rsi.nan /\ in.rsi.v <= 55 * RSI_SCALE)
                     \/ in.prev_close < in.prev_ema
      [] k = 4 -> ~in.rsi.nan /\ in.rsi.v > 75 * RSI_SCALE
      [] OTHER -> TRUE
RuleOutcome ==
    <<(<<"SELL", "danger">>), (<<"HOLD", "warning">>), (<<"BUY", "success">>),
      (<<"PROFIT", "warning">>), (<<"HOLD", "info">>)>>
FirstRule(in) ==
    CHOOSE k \in 1..5 : RuleHolds(k, in) /\ \A j \in 1..(k - 1) : ~RuleHolds(j, in)

\* C9: analyze returns exactly the outcome of the first matching rule of the
\* five-rule cascade, and its stop_loss is EMA - ATR of the current bar in
\* every case.
C9_Cascade ==
    ret.kind = "Signal"
       => /\ <<ret.signal, ret.severity>> = RuleOutcome[FirstRule(ProbeIn)]
          /\ ret.stop_loss = ProbeIn.ema - ProbeIn.atr
          /\ ret.price = ProbeIn.price

\* A bar above its EMA with RSI exactly 55 and no fresh breakout has been
\* classified as BUY.
C9_Witness ==
    /\ ret.kind = "Signal"
    /\ arg.kind = "values"
    /\ arg.v.rsi = Num(55 * RSI_SCALE)
    /\ arg.v.price > arg.v.ema
    /\ arg.v.prev_close >= arg.v.prev_ema
    /\ ret.signal = "BUY"

\* C10: on a frame of fewer than 2 bars analyze ends in an error and returns
\* no Signal.
C10_ShortFrameRefused ==
    (arg.kind = "frame" /\ Len(arg.df) < 2 /\ ret # NoProbe)
       => ret.kind = "IndexError"

\* analyze has been called on a frame of one bar.
C10_Witness ==
    /\ arg.kind = "frame"
    /\ Len(arg.df) = 1
    /\ ret.kind = "IndexError"

\* C11: for a frame whose close, high and low are one constant price, the
\* rsi analyze returns is 50 and its ema is that price.
C11_FlatSeries ==
    (arg.kind = "frame" /\ arg.df \in FlatFrames /\ ret.kind = "Signal")
       => /\ ret.rsi = Num(50 * RSI_SCALE)
          /\ ret.ema = arg.df[1].close

\* C12: when no bar of the frame closes below the bar before it (the
\* smoothed average loss is 0), with or without up moves, the rsi analyze
\* returns is the number 100, never NaN.
C12_NoLossRsi ==
    (/\ arg.kind = "frame"
     /\ ret.kind = "Signal"
     /\ \A k \in 2..Len(arg.df) : arg.df[k].close >= arg.df[k - 1].close)
       => ret.rsi = Num(100 * RSI_SCALE)

\* The modifier table of the sizing contract.
ClaimedModifier(regime) ==
    CASE regime = "RISK_ON" -> 100
      [] regime = "NEUTRAL" -> 50
      [] regime = "RISK_OFF" -> 25
      [] OTHER -> 50

\* C13: allocation cap.  For account_size > 0 and price > stop > 0 the
\* returned shares times price is at most a quarter of account_size.
C13_AllocationCap ==
    (ret # NoProbe /\ arg.kind = "size" /\ arg.account_size > 0
       /\ arg.price > arg.stop_loss /\ arg.stop_loss > 0)
       => /\ ret.kind = "Sizing"
          /\ 4 * ret.shares * arg.price <= arg.account_size * SCALE

\* A tight stop, for which the risk budget alone would buy more than a
\* quarter of the account and the cap decides.
C13_Witness ==
    /\ ret # NoProbe
    /\ arg.kind = "size"
    /\ arg.price = 100 * SCALE
    /\ arg.stop_loss = 100 * SCALE - 100
    /\ ret.kind = "Sizing"
    /\ ret.shares > 0
    /\ ret.shares * arg.price = (arg.account_size \div 4) * SCALE

\* C14: risk cap.  For price > stop > 0 the returned shares times
\* (price - stop) is at most account_size * base_risk_pct * modifier, with
\* the modifier 1.0, 0.5, 0.25 for RISK_ON, NEUTRAL, RISK_OFF and 0.5 for an
\* unknown regime, hence at most account_size * base_risk_pct; the reported
\* risk_amount is shares * (price - stop).
C14_RiskCap ==
    (ret # NoProbe /\ arg.kind = "size"
       /\ arg.price > arg.stop_loss /\ arg.stop_loss > 0)
       => /\ ret.kind = "Sizing"
          /\ ret.shares * (arg.price - arg.stop_loss) * SCALE
                <= arg.account_size * arg.base_risk_pct
                      * ClaimedModifier(arg.macro_regime)
          /\ ClaimedModifier(arg.macro_regime) <= 100
          /\ ret.regime_modifier = ClaimedModifier(arg.macro_regime)
          /\ ret.risk_amount = ret.shares * (arg.price - arg.stop_loss)

\* An unknown regime with a wide stop, where the risk budget decides the
\* size.
C14_Witness ==
    /\ ret # NoProbe
    /\ arg.kind = "size"
    /\ arg.macro_regime = "UNKNOWN"
    /\ arg.price > arg.stop_loss
    /\ arg.stop_loss > 0
    /\ ret.kind = "Sizing"
    /\ ret.shares > 0
    /\ 4 * (ret.shares + 1) * arg.price <= arg.account_size * SCALE

\* C15: calculate_size never fails and returns a non-negative integer share
\* count for every price >= 0, every stop and every regime; with
\* stop >= price the risk per share is 5% of price.
C15_NeverFails ==
    (ret # NoProbe /\ arg.kind = "size" /\ arg.price >= 0)
       => /\ ret.kind = "Sizing"
          /\ ret.shares >= 0
          /\ arg.stop_loss >= arg.price
                => ret.risk_amount = (ret.shares * arg.price) \div 20

\* The last call of the log, when it is the given operation.
LastCall == arg.log[Len(arg.log)]
LastCallIs(op) ==
    arg.kind = "calls" /\ arg.log # <<>> /\ LastCall.op = op

\* C16: buy executes at price * (1 + slippage); cash goes down by qty times
\* the executed price, shares up by qty, total_cost up by qty times the
\* executed price, exactly one BUY record with that price and qty is appended
\* after the earlier records, and the equity curve is unchanged; the
\* differences and products are the float results.
C16_Buy ==
    LastCallIs("buy") =>
       LET c == LastCall
           executed == (c.price * (SCALE + slippage_pct)) \div SCALE
           cost == fl(c.qty * executed)
       IN  /\ cash = fl(c.pre.cash - cost)
           /\ shares = c.pre.shares + c.qty
           /\ total_cost = fl(c.pre.total_cost + cost)
           /\ Len(trades) = Len(c.pre.trades) + 1
           /\ SubSeq(trades, 1, Len(c.pre.trades)) = c.pre.trades
           /\ Last(trades).type = "BUY"
           /\ Last(trades).price = executed
           /\ Last(trades).qty = c.qty
           /\ equity_curve = c.pre.equity_curve

\* A buy with slippage, on top of a position and an earlier record.
C16_Witness ==
    /\ LastCallIs("buy")
    /\ slippage_pct = 1
    /\ LastCall.pre.shares > 0
    /\ LastCall.pre.trades # <<>>
    /\ Last(trades).price > LastCall.price

\* C17: sell with shares > 0 executes at price * (1 - slippage);
\* realized_pnl = shares * executed price - total_cost, cash goes up by
\* shares * executed price, shares and total_cost become 0 and exactly one
\* SELL record with that realized_pnl is appended.  With shares = 10,
\* total_cost = 900, price = 100 and slippage 0.001 the executed price is
\* 99.9, cash goes up by 999 and realized_pnl is 99; the sums and products
\* are the float results.
C17_Sell ==
    (LastCallIs("sell") /\ LastCall.pre.shares > 0) =>
       LET c == LastCall
           executed == (c.price * (SCALE - slippage_pct)) \div SCALE
           revenue == fl(c.pre.shares * executed)
           realized_pnl == fl(revenue - c.pre.total_cost)
       IN  /\ cash = fl(c.pre.cash + revenue)
           /\ shares = 0
           /\ total_cost = 0
           /\ Len(trades) = Len(c.pre.trades) + 1
           /\ SubSeq(trades, 1, Len(c.pre.trades)) = c.pre.trades
           /\ Last(trades).type = "SELL"
           /\ Last(trades).price = executed
           /\ Last(trades).pnl = realized_pnl
           /\ (/\ c.pre.shares = 10
               /\ c.pre.total_cost = 900 * SCALE
               /\ c.price = 100 * SCALE
               /\ slippage_pct = 1)
                 => /\ executed = 99900
                    /\ cash - c.pre.cash = 999 * SCALE
                    /\ Last(trades).pnl = 99 * SCALE

\* The scenario of C17: 10 shares that cost 900, sold at 100 with slippage
\* 0.001.
C17_Witness ==
    /\ LastCallIs("sell")
    /\ LastCall.pre.shares = 10
    /\ LastCall.pre.total_cost = 900 * SCALE
    /\ LastCall.price = 100 * SCALE
    /\ slippage_pct = 1
    /\ Last(trades).pnl = 99 * SCALE

\* The last two calls of the log are a buy from no position and a sell at
\* the same price.
RoundTrip ==
    /\ arg.kind = "calls"
    /\ Len(arg.log) >= 2
    /\ arg.log[Len(arg.log) - 1].op = "buy"
    /\ arg.log[Len(arg.log) - 1].pre.shares = 0
    /\ arg.log[Len(arg.log) - 1].qty >= 1
    /\ LastCall.op = "sell"
    /\ LastCall.price = arg.log[Len(arg.log) - 1].price

\* C18: with slippage 0, from shares = 0, a buy of q shares at p followed by
\* a sell at p returns cash to its value before the buy, leaves shares = 0
\* and total_cost = 0, and records realized_pnl = 0.
C18_RoundTrip ==
    (RoundTrip /\ slippage_pct = 0) =>
       /\ cash = arg.log[Len(arg.log) - 1].pre.cash
       /\ shares = 0
       /\ total_cost = 0
       /\ Last(trades).type = "SELL"
       /\ Last(trades).pnl = 0

\* The step taken simulates a bar (it is not skipped as warm-up) and finds
\* a BUY signal with cash > price.
BuyStep ==
    /\ pc = "loop"
    /\ i' = i + 1
    /\ Len(equity_curve') = Len(equity_curve) + 1
    /\ analysis'.kind = "Signal"
    /\ analysis'.signal = "BUY"
    /\ cash > analysis'.price

\* floor(min(cash * 0.2 * m, cash) / price), m given in tenths.
ClaimedQuantity(cash_, price, m10) ==
    LET target == (cash_ * 2 * m10) \div 100
    IN  (IF target > cash_ THEN cash_ ELSE target) \div price

\* C19: on an executed BUY step the quantity is
\* floor(min(cash * 0.2 * m, cash) / price) with m = 1.5 for the verdict
\* Agree, 0.5 for Caution, and 1.0 when use_ai is off.
C19_Multiplier ==
    [][(BuyStep /\ Len(trades') = Len(trades) + 1)
          => Last(trades').qty =
                ClaimedQuantity(cash, analysis'.price,
                                IF ~use_ai THEN 10
                                ELSE IF verdict' = "Agree" THEN 15
                                ELSE IF verdict' = "Caution" THEN 5
                                ELSE 10)]_vars

\* C20: on a BUY step with cash > price where the advisory call fails, the
\* engine buys floor(cash * 0.2 * 1.5 / price) shares and cash goes down by
\* quantity * price * (1 + slippage).
C20_UnavailableBuys ==
    [][(BuyStep /\ ai_outcome' \in AdvisoryFailures)
          => LET quantity == ClaimedQuantity(cash, analysis'.price, 15)
                 executed == (analysis'.price * (SCALE + slippage_pct))
                                \div SCALE
             IN  /\ shares' = shares + quantity
                 /\ cash' = fl(cash - fl(quantity * executed))]_vars

\* The step taken simulates a bar: it is a loop iteration that records an
\* equity point.
SimStep ==
    /\ pc = "loop"
    /\ i' = i + 1
    /\ Len(equity_curve') = Len(equity_curve) + 1

\* The step taken appends one record of the given type to the ledger.
Appended(type) ==
    /\ Len(trades') = Len(trades) + 1
    /\ SubSeq(trades', 1, Len(trades)) = trades
    /\ Last(trades').type = type

C22_SellIff ==
    [][/\ Appended("SELL")
             <=> /\ SimStep
                 /\ analysis'.signal \in {"SELL", "PROFIT"}
                 /\ shares > 0
                 /\ verdict' # "Disagree"
       /\ Appended("SELL") => shares' = 0 /\ total_cost' = 0]_vars

\* A PROFIT signal on a held position, answered with Caution: the position
\* has been sold.
C22_Witness ==
    /\ analysis.kind = "Signal"
    /\ analysis.signal = "PROFIT"
    /\ verdict = "Caution"
    /\ Len(trades) = 2
    /\ trades[1].type = "BUY"
    /\ trades[2].type = "SELL"
    /\ shares = 0

C24_PositionInvariant ==
    /\ shares \in Nat
    /\ shares = 0 => total_cost = 0

\* A position was bought and then sold.
C24_Witness ==
    /\ Len(trades) = 2
    /\ trades[1].type = "BUY"
    /\ trades[1].qty > 0
    /\ trades[2].type = "SELL"
    /\ shares = 0
    /\ total_cost = 0

\* The bars of a benchmark that fall in the period of the simulation: from
\* the date of the first simulated bar to the date of the last primary bar.
SimulationWindow(t) ==
    SelectSeq(benchmark_dfs[t],
              LAMBDA b : /\ b.date >= equity_curve[1].date
                         /\ b.date <= Last(full_df.bars).date)

\* C25: for each cached benchmark the report's return is the benchmark's
\* return from the first simulated bar to the last bar, and its alpha is the
\* strategy's return minus that, whether or not start_date is set.
C25_AlphaSamePeriod ==
    (pc = "done" /\ equity_curve # <<>>)
       => \A t \in DOMAIN benchmark_dfs :
             SimulationWindow(t) # <<>>
                => /\ t \in DOMAIN report.benchmarks
                   /\ report.benchmarks[t].bench_return
                         = Pct(Last(SimulationWindow(t)).close,
                               SimulationWindow(t)[1].close)
                   /\ report.benchmarks[t].alpha
                         = report.pnl_pct
                              - Pct(Last(SimulationWindow(t)).close,
                                    SimulationWindow(t)[1].close)

\* C26: a step at which the advisory answers Disagree never liquidates a
\* held position: no SELL record is appended and shares stays as it was,
\* also when the signal is SELL because the price is below ema - atr.  So a
\* position is held for as many steps as the advisory keeps answering
\* Disagree.
C26_DisagreeHolds ==
    [][(SimStep /\ shares > 0 /\ verdict' = "Disagree")
          => /\ ~Appended("SELL")
             /\ trades' = trades
             /\ shares' = shares
             /\ shares' > 0]_vars

\* A held position whose price fell below the stop level: the signal is
\* SELL, the advisory answered Disagree, and the position is still held.
C26_Witness ==
    /\ analysis.kind = "Signal"
    /\ analysis.signal = "SELL"
    /\ analysis.price < analysis.stop_loss
    /\ ai_outcome = "json_disagree"
    /\ verdict = "Disagree"
    /\ shares > 0
    /\ Len(trades) = 1
    /\ Len(equity_curve) = 2

\* C27: on a primary series of more than 20 bars run terminates, whatever
\* the advisory answers: the loop starts at index 20, every iteration moves
\* to the next index, no iteration raises, finalize_report is reached once
\* and only after the last index, and it is reached eventually.
C27_RunTerminates ==
    /\ [][/\ (pc = "new" /\ pc' = "loop") => i' = min_window
          /\ (pc = "loop" /\ pc' = "loop")
                => i < Len(full_df.bars) /\ i' = i + 1
          /\ (pc = "loop" /\ Len(full_df.bars) > min_window)
                => pc' # "raised"
          /\ (pc = "loop" /\ pc' = "done" /\ Len(full_df.bars) > min_window)
                => i = Len(full_df.bars)
          /\ pc = "done" => pc' = "done" /\ report' = report]_vars
    /\ (pc = "loop" /\ Len(full_df.bars) > min_window)
          ~> (pc = "done" /\ i = Len(full_df.bars))

\* A finished run over 22 bars with the advisory consulted and failing.
C27_Witness ==
    /\ pc = "done"
    /\ Len(full_df.bars) = min_window + 2
    /\ i = Len(full_df.bars)
    /\ use_ai
    /\ ai_outcome \in AdvisoryFailures
    /\ Len(equity_curve) = 2

\* The BUY records appended since the most recent SELL record.
LastSell ==
    LET sells == {k \in 1..Len(trades) : trades[k].type = "SELL"}
    IN  IF sells = {} THEN 0
        ELSE CHOOSE k \in sells : \A j \in sells : j <= k
OpenBuys == SubSeq(trades, LastSell + 1, Len(trades))

RECURSIVE SumQty(_, _)
SumQty(recs, n) == IF n = 0 THEN 0 ELSE SumQty(recs, n - 1) + recs[n].qty

\* The costs added up in the order of the records, each sum a float result.
RECURSIVE SumCost(_, _)
SumCost(recs, n) ==
    IF n = 0 THEN 0
    ELSE fl(SumCost(recs, n - 1) + fl(recs[n].qty * recs[n].price))

\* C28: shares is the sum of the quantities of the BUY records since the most
\* recent SELL record, total_cost the sum of quantity * executed price over
\* them; successive BUYs accumulate into one position, and no SELL record
\* comes right after another SELL record.
C28_PositionFromLedger ==
    /\ \A k \in 1..Len(OpenBuys) : OpenBuys[k].type = "BUY"
    /\ shares = SumQty(OpenBuys, Len(OpenBuys))
    /\ total_cost = SumCost(OpenBuys, Len(OpenBuys))
    /\ \A k \in 2..Len(trades) :
          ~(trades[k].type = "SELL" /\ trades[k - 1].type = "SELL")

\* Two BUY records in a row, held as one position.
C28_Witness ==
    /\ Len(OpenBuys) = 2
    /\ shares = OpenBuys[1].qty + OpenBuys[2].qty
    /\ OpenBuys[1].qty > 0
    /\ OpenBuys[2].qty > 0

\* C29: with positive prices and a slippage rate between 0 and 1, cash is
\* never negative in a state reached through run: the order is sized and
\* checked at the quoted price, and still costs no more than the cash held.
C29_CashNonNegative ==
    [][/\ cash' >= 0
       /\ Appended("BUY")
             => /\ cash' = fl(cash - fl(Last(trades').qty * Last(trades').price))
                /\ fl(Last(trades').qty * Last(trades').price) <= cash]_vars

\* A BUY filled at twice the quoted price (slippage rate 1).
C29_Witness ==
    /\ slippage_pct = SCALE
    /\ analysis.kind = "Signal"
    /\ analysis.signal = "BUY"
    /\ Len(trades) = 1
    /\ trades[1].type = "BUY"
    /\ trades[1].price = 2 * analysis.price
    /\ cash = capital - trades[1].qty * trades[1].price
    /\ cash > 0

\* The realized_pnl of the SELL records, added up in ledger order.
RECURSIVE SumPnl(_)
SumPnl(n) ==
    IF n = 0 THEN 0
    ELSE IF trades[n].type = "SELL" THEN fl(SumPnl(n - 1) + trades[n].pnl)
    ELSE SumPnl(n - 1)

\* C30: capital conservation.  In every reachable state cash + total_cost
\* equals the initial capital plus the sum of realized_pnl over the SELL
\* records of the ledger.
C30_CapitalConservation ==
    fl(cash + total_cost) = fl(capital + SumPnl(Len(trades)))

====
